---- MODULE Spec2Model ----
(***************************************************************************)
(* Model of the client-side logic of the Petesh social gallery:            *)
(*   - Comments.tsx      buildTree and the cascading local delete          *)
(*   - Chat.tsx          dmChannel, samePair and the message list          *)
(*   - AuthProvider.tsx  hydrateFromSession, ensureProfile and the         *)
(*                       generation guard commitIfLatest                   *)
(* Each component has its own specification over the shared variables.     *)
(***************************************************************************)
EXTENDS Integers, Sequences, FiniteSets, TLC

\* ------------------------------------------------------------------------
\* Bounds of the model
\* ------------------------------------------------------------------------
\* cascading delete: comment identifiers 1..MaxRows
MaxRows == 4
\* tree building: comment identifiers 1..MaxTreeRows, instants 1..MaxTime
MaxTreeRows == 3
MaxTime == 3
\* conversation identity: participant ids are strings of 1..MaxIdLen characters
MaxIdLen == 2
\* message store: message identifiers are 1..MaxMsgs
MaxMsgs == 2
\* message store: historical loads in flight at one time
MaxLoads == 2
\* message store: profile list loads in flight at one time
MaxProfLoads == 1
\* auth provider: hydration attempts (identity events) of one page load
MaxRuns == 2
\* auth provider: updateDisplayName calls of one page load
MaxUpdates == 1
\* comment handlers: the table holds comments 1..MaxStored at mount
MaxStored == 2
\* comment handlers: deleteComment calls in flight at one time
MaxDeletes == 1
\* comment handlers: submit calls that reach the backend
MaxSubmits == 1
\* rows of a collection whose parent links are arbitrary
MaxLoopRows == 3
\* comment handlers: deletes in flight when only deletes and loads run
MaxOverlap == 2
\* auth provider: signOut and refreshProfile calls in flight
MaxCalls == 1

\* ------------------------------------------------------------------------
\* Values
\* ------------------------------------------------------------------------
\* null (parent_id of a top-level comment, no user, no profile, ...)
Null == 0

VARIABLES
  \* Comments component
  rows,        \* useState<Row[]>: the flat comment collection
  tree,        \* useMemo(() => buildTree(rows)): the rendered forest
  rowsBefore,  \* history: rows as the last handler found them
  commentUser, \* user of the auth context, as Comments sees it
  replyTo,     \* useState<string | null>: the reply target
  busyId,      \* useState<string | null>: the comment being deleted
  commentError,\* useState(""): the visible error of Comments
  comments,    \* the comments table of the photo, in created_at order
  nextRow,     \* the identifier of the next stored comment
  deletes,     \* deleteComment() calls awaiting the delete
  submits,     \* submit() calls awaiting the insert
  submitCount, \* submit() calls that reached the backend so far
  rowLoads,    \* load() calls awaiting the query
  walkStack,   \* deleteComment: stack, the stack of the while loop
  walkRemove,  \* deleteComment: toRemove, the Set of removed ids
  visits,      \* history: the ids the loop added, in order
  sortStack,   \* buildTree: the arrays waiting for their sortRec call
  sortCalls,   \* history: sortRec calls made
  loopPc,      \* "idle", "walk" (the while loop), "sort" (sortRec), "done"
  \* conversation identity, as computed by the two clients of a pair
  dmMe,        \* the id of the first participant
  dmOther,     \* the id of the second participant
  chanMine,    \* dmChannel(me, other) in the first participant's client
  chanTheirs,  \* dmChannel(other, me) in the second participant's client
  \* Chat component
  me,          \* user?.id of the auth context
  profiles,    \* useState<Profile[]>: the other members, by id
  selected,    \* useState<Profile | null>: the selected member's id
  messages,    \* useState<Message[]>: the message list
  text,        \* useState(""): the composer input
  chatError,   \* useState(""): the visible error
  effMe,       \* me as of the last run of the effects
  effSel,      \* selected?.id as of the last run of the effects
  sub,         \* the realtime channels: <<me, selected.id>> of each closure
  events,      \* INSERT events the backend has queued, each for a channel
  db,          \* the messages table, in created_at order
  nextId,      \* the next unused message identifier
  sends,       \* send() calls awaiting the insert
  loads,       \* loadMessages() calls awaiting the query
  profLoads,   \* loadProfiles() calls awaiting the query
  chatMounted, \* the Chat component is mounted
  \* AuthProvider component
  session,       \* useState<SessionType>: the account id of the session
  user,          \* useState<UserType>: the account id of the user
  profile,       \* useState<Profile | null>
  authLoading,   \* useState(true): the loading of the context
  profileLoading,\* useState(false)
  errMsg,        \* useState<string | null>: the error of the context
  runIdRef,      \* useRef(0): the generation counter
  mountedRef,    \* useRef(true)
  boot,          \* the getSession() call of the init effect is pending
  store,         \* the profiles table: account id -> row
  attempts,      \* ensureProfile runs under withTimeout, one per hydration
  updates,       \* updateDisplayName calls awaiting the update
  updateCount,   \* updateDisplayName calls so far
  savedAlias,    \* history: the alias stored since the last hydration began
  calls,         \* signOut() and refreshProfile() calls awaiting the backend
  \* AccountMenu component
  menuOpen,      \* useState(false): the panel is open
  editing,       \* useState(false): the alias editor is open
  menuBusy,      \* useState(false): busy
  menuError,     \* useState<string | null>: the error of the menu
  menuCalls,     \* calls of the menu's handlers awaiting the backend
  uncaught,      \* handlers whose promise was rejected with nobody to catch
  act          \* the handler that ran last, with its argument

handlerVars == <<commentUser, replyTo, busyId, commentError, comments, nextRow,
                 deletes, submits, submitCount, rowLoads>>
loopVars == <<walkStack, walkRemove, visits, sortStack, sortCalls, loopPc>>
commentVars == <<rows, tree, rowsBefore, handlerVars, loopVars>>
dmVars == <<dmMe, dmOther, chanMine, chanTheirs>>
chatVars == <<me, profiles, selected, messages, text, chatError, effMe, effSel,
              sub, events, db, nextId, sends, loads, profLoads, chatMounted>>
clientVars == <<session, user, profile, authLoading, profileLoading, errMsg>>
menuVars == <<menuOpen, editing, menuBusy, menuError, menuCalls, uncaught>>
authVars == <<clientVars, runIdRef, mountedRef, boot, store, attempts, updates,
              updateCount, savedAlias, calls, menuVars>>
vars == <<commentVars, dmVars, chatVars, authVars, act>>

Act(name, arg) == [name |-> name, arg |-> arg, pc |-> "", ok |-> TRUE]

\* a step of an asynchronous run: the call it was waiting for, and whether
\* the backend answered that call without an error
StepAct(name, arg, pc, ok) == [name |-> name, arg |-> arg, pc |-> pc, ok |-> ok]

\* ------------------------------------------------------------------------
\* Generic helpers
\* ------------------------------------------------------------------------
Range(s) == {s[i] : i \in 1..Len(s)}

RECURSIVE Perms(_)
\* all orderings of a finite set, as sequences
Perms(S) ==
  IF S = {} THEN {<<>>}
  ELSE UNION {{<<x>> \o p : p \in Perms(S \ {x})} : x \in S}

\* the components a specification leaves out keep their constructed state
HandlersUnused ==
  /\ commentUser = Null /\ replyTo = Null /\ busyId = Null /\ commentError = ""
  /\ comments = <<>> /\ nextRow = 1 /\ deletes = {}
  /\ submits = {} /\ submitCount = 0 /\ rowLoads = 0
LoopsUnused ==
  /\ walkStack = <<>> /\ walkRemove = {} /\ visits = <<>>
  /\ sortStack = <<>> /\ sortCalls = 0 /\ loopPc = "idle"
CommentsUnused ==
  /\ rows = <<>> /\ tree = <<>> /\ rowsBefore = <<>> /\ HandlersUnused
  /\ LoopsUnused
DmUnused == dmMe = <<>> /\ dmOther = <<>> /\ chanMine = <<>> /\ chanTheirs = <<>>
ChatUnused ==
  /\ me = Null /\ profiles = <<>> /\ selected = Null /\ messages = <<>>
  /\ text = "" /\ chatError = "" /\ effMe = Null /\ effSel = Null
  /\ sub = {} /\ events = {} /\ db = <<>> /\ nextId = 1
  /\ sends = {} /\ loads = {} /\ profLoads = 0 /\ chatMounted = TRUE

\* no string (null or ""), no profile, and the accounts of the backend
NoStr == <<>>
NoProfile == [id |-> Null, display_name |-> NoStr, avatar_url |-> NoStr]
Accounts == {1, 2}
NoAlias == [user |-> Null, clean |-> NoStr]
MenuUnused ==
  /\ menuOpen = FALSE /\ editing = FALSE /\ menuBusy = FALSE /\ menuError = ""
  /\ menuCalls = {} /\ uncaught = {}
AuthUnused ==
  /\ MenuUnused
  /\ session = Null /\ user = Null /\ profile = NoProfile
  /\ authLoading = TRUE /\ profileLoading = FALSE /\ errMsg = ""
  /\ runIdRef = 0 /\ mountedRef = TRUE /\ boot = FALSE
  /\ store = [u \in Accounts |-> NoProfile]
  /\ attempts = {} /\ updates = {} /\ updateCount = 0
  /\ savedAlias = NoAlias /\ calls = {}

\* ========================================================================
\* Comments.tsx
\* ========================================================================
\* type Row: id, parent_id (Null for a top-level comment) and created_at.
\* created_at stands for the instant new Date(created_at).getTime() yields.
Row(id, parent, t) == [id |-> id, parent_id |-> parent, created_at |-> t]

\* byId.has(id)
has(rs, id) == \E i \in 1..Len(rs) : rs[i].id = id

\* n.parent_id && byId.has(n.parent_id): n is pushed to its parent's replies
isReplyNoHas(rs, n) == n.parent_id # Null
isReply(rs, n) == n.parent_id # Null /\ has(rs, n.parent_id)

\* the nodes pushed to roots, in the iteration order of byId.values()
rootsOfAll(rs) == rs
rootsOf(rs) == SelectSeq(rs, LAMBDA n : ~isReply(rs, n))

\* the nodes pushed to p.replies, in the iteration order of byId.values()
repliesOf(rs, p) == SelectSeq(rs, LAMBDA n : isReply(rs, n) /\ n.parent_id = p.id)

RECURSIVE insertSorted(_, _)
\* x placed behind every element that does not compare greater than x
insertSorted(s, x) ==
  IF s = <<>> THEN <<x>>
  ELSE IF Head(s).created_at - x.created_at <= 0
       THEN <<Head(s)>> \o insertSorted(Tail(s), x)
       ELSE <<x>> \o s

RECURSIVE insertSortedUnstable(_, _)
insertSortedUnstable(s, x) ==
  IF s = <<>> THEN <<x>>
  ELSE IF Head(s).created_at - x.created_at < 0
       THEN <<Head(s)>> \o insertSortedUnstable(Tail(s), x)
       ELSE <<x>> \o s

RECURSIVE sortByCreatedFrom(_, _, _)
sortByCreatedFrom(arr, i, acc) ==
  IF i > Len(arr) THEN acc
  ELSE sortByCreatedFrom(arr, i + 1, insertSorted(acc, arr[i]))

RECURSIVE sortUnstableFrom(_, _, _)
sortUnstableFrom(arr, i, acc) ==
  IF i > Len(arr) THEN acc
  ELSE sortUnstableFrom(arr, i + 1, insertSortedUnstable(acc, arr[i]))

\* arr.sort((a, b) => getTime(a) - getTime(b)): Array.prototype.sort is stable
sortByCreatedUnstable(arr) == sortUnstableFrom(arr, 1, <<>>)
sortByCreated(arr) == sortByCreatedFrom(arr, 1, <<>>)

RECURSIVE sortRec(_, _)
\* sortRec(arr): sort arr, then each element's replies; the result is the
\* sequence of nodes, a node being a row with its sorted replies
sortRec(rs, arr) ==
  LET s == sortByCreated(arr)
  IN  [i \in 1..Len(s) |->
         [id |-> s[i].id, parent_id |-> s[i].parent_id,
          created_at |-> s[i].created_at,
          replies |-> sortRec(rs, repliesOf(rs, s[i]))]]

\* buildTree(rows)
buildTree(rs) == sortRec(rs, rootsOf(rs))

\* childrenByParent.get(cur) ?? []: ids of the rows whose parent_id is cur
kidsOf(prev, cur) ==
  LET ks == SelectSeq(prev, LAMBDA r : r.parent_id # Null /\ r.parent_id = cur)
  IN  [i \in 1..Len(ks) |-> ks[i].id]

RECURSIVE traverse(_, _, _)
\* while (stack.length) { cur = stack.pop(); if seen continue; add; push kids }
traverse(prev, stack, toRemove) ==
  IF stack = <<>> THEN toRemove
  ELSE LET cur  == stack[Len(stack)]
           rest == SubSeq(stack, 1, Len(stack) - 1)
       IN  IF cur \in toRemove THEN traverse(prev, rest, toRemove)
           ELSE traverse(prev, rest \o kidsOf(prev, cur), toRemove \cup {cur})

RECURSIVE traverseNoKids(_, _, _)
traverseNoKids(prev, stack, toRemove) ==
  IF stack = <<>> THEN toRemove
  ELSE LET cur  == stack[Len(stack)]
           rest == SubSeq(stack, 1, Len(stack) - 1)
           kids == kidsOf(prev, cur)
       IN  IF cur \in toRemove THEN traverseNoKids(prev, rest, toRemove)
           ELSE traverseNoKids(prev,
                  rest \o (IF kids = <<>> THEN <<>> ELSE <<kids[1]>>),
                  toRemove \cup {cur})

\* the set toRemove that the updater collects for target id
toRemoveOfFirstKid(prev, id) == traverseNoKids(prev, <<id>>, {})
toRemoveOf(prev, id) == traverse(prev, <<id>>, {})

\* the setRows updater of deleteComment
pruneRows(prev, id) ==
  IF ~has(prev, id) THEN prev
  ELSE SelectSeq(prev, LAMBDA r : r.id \notin toRemoveOf(prev, id))

\* ------------------------------------------------------------------------
\* Specification of the pure comment functions: any collection the backing
\* store can hold (unique ids, a parent is created before its replies, a
\* parent may be missing from the collection), in any order.
\* ------------------------------------------------------------------------
\* the parent links a collection over the ids S can have
ParentsOf(S, maxId) ==
  {f \in [S -> {Null} \cup (1..maxId)] : \A x \in S : f[x] < x}

\* rows is a collection over ids 1..maxId; created_at is drawn from 1..maxT,
\* or is the place in creation order (the id) when maxT is Null
IsCollection(maxId, maxT) ==
  \E S \in SUBSET (1..maxId) :
    \E p \in Perms(S) :
      \E par \in ParentsOf(S, maxId) :
        \E tm \in [S -> IF maxT = Null THEN {Null} ELSE 1..maxT] :
          rows = [i \in 1..Len(p) |->
                    Row(p[i], par[p[i]],
                        IF maxT = Null THEN p[i] ELSE tm[p[i]])]

InitTree ==
  /\ IsCollection(MaxTreeRows, MaxTime)
  /\ tree = <<>>
  /\ rowsBefore = <<>>
  /\ HandlersUnused
  /\ LoopsUnused
  /\ act = Act("init", Null)
  /\ DmUnused
  /\ ChatUnused
  /\ AuthUnused

InitPrune ==
  /\ IsCollection(MaxRows, Null)
  /\ tree = <<>>
  /\ rowsBefore = <<>>
  /\ HandlersUnused
  /\ LoopsUnused
  /\ act = Act("init", Null)
  /\ DmUnused
  /\ ChatUnused
  /\ AuthUnused

\* render: useMemo recomputes the tree from rows
Render ==
  /\ act.name = "init"
  /\ tree' = buildTree(rows)
  /\ rowsBefore' = rows
  /\ act' = Act("render", Null)
  /\ UNCHANGED <<rows, handlerVars, loopVars, dmVars, chatVars, authVars>>

\* the setRows updater of a confirmed delete, and the render that follows
Prune(id) ==
  /\ act.name = "render"
  /\ rows' = pruneRows(rows, id)
  /\ tree' = buildTree(rows')
  /\ rowsBefore' = rows
  /\ act' = Act("prune", id)
  /\ UNCHANGED <<handlerVars, loopVars, dmVars, chatVars, authVars>>

NextTree == Render

NextPrune == Render \/ \E id \in 1..MaxRows : Prune(id)

\* buildTree applied to every bounded collection
SpecTree == InitTree /\ [][NextTree]_vars

\* the delete updater applied to every bounded collection
SpecPrune == InitPrune /\ [][NextPrune]_vars

\* ------------------------------------------------------------------------
\* Properties of the comment functions
\* ------------------------------------------------------------------------
idsOf(rs) == {rs[i].id : i \in 1..Len(rs)}

\* the row of rs with identifier id (rs holds one)
rowOf(rs, id) == CHOOSE r \in Range(rs) : r.id = id

RECURSIVE descendsFrom(_, _, _, _)
\* following parent_id from x reaches t within fuel links
descendsFrom(rs, x, t, fuel) ==
  /\ fuel > 0
  /\ has(rs, x)
  /\ LET p == rowOf(rs, x).parent_id
     IN  /\ p # Null
         /\ \/ p = t
            \/ descendsFrom(rs, p, t, fuel - 1)

\* t and its transitive descendants in rs
familyOf(rs, t) == {t} \cup {x \in idsOf(rs) : descendsFrom(rs, x, t, Len(rs))}

\* C4: a confirmed delete of a target held in the collection removes the
\* target and every transitive descendant of it (via parent_id), keeps every
\* other row, and keeps the order of the rows that stay.
C4_CascadeExact ==
  (act.name = "prune" /\ has(rowsBefore, act.arg)) =>
     /\ idsOf(rowsBefore) \ idsOf(rows) = familyOf(rowsBefore, act.arg)
     /\ rows = SelectSeq(rowsBefore,
                 LAMBDA r : r.id \notin familyOf(rowsBefore, act.arg))

\* the example of the claim: A parent of B and C, B parent of D
isExample(rs, a, b, c, d) ==
  /\ Cardinality({a, b, c, d}) = 4
  /\ idsOf(rs) = {a, b, c, d}
  /\ rowOf(rs, a).parent_id = Null
  /\ rowOf(rs, b).parent_id = a
  /\ rowOf(rs, c).parent_id = a
  /\ rowOf(rs, d).parent_id = b

\* deleting B from the example leaves A and C
C4_Witness ==
  /\ act.name = "prune"
  /\ \E a, b, c, d \in 1..MaxRows :
       /\ isExample(rowsBefore, a, b, c, d)
       /\ act.arg = b
       /\ idsOf(rows) = {a, c}

RECURSIVE flatten(_)
\* the nodes reachable from a sequence of nodes, in preorder
flatten(nodes) ==
  IF nodes = <<>> THEN <<>>
  ELSE <<Head(nodes)>> \o flatten(Head(nodes).replies) \o flatten(Tail(nodes))

rowOfNode(n) == Row(n.id, n.parent_id, n.created_at)

built == act.name \in {"render", "prune"}

\* C5: every record of the collection appears exactly once among the nodes
\* reachable from the roots of the built tree, and no other node appears.
C5_ExactlyOnce ==
  built =>
    LET flat == flatten(tree)
    IN  /\ Len(flat) = Len(rows)
        /\ \A r \in Range(rows) :
             Cardinality({i \in 1..Len(flat) : rowOfNode(flat[i]) = r}) = 1

\* a tree with a reply, a top-level comment and an orphan
C5_Witness ==
  /\ act.name = "render"
  /\ Len(rows) >= 2
  /\ \E r \in Range(rows) : isReply(rows, r)
  /\ \E r \in Range(rows) : r.parent_id # Null /\ ~has(rows, r.parent_id)
  /\ Len(flatten(tree)) = Len(rows)

\* C6: a record is in the root sequence iff its parent id is null or is not
\* the id of any record of the collection.
C6_RootIff ==
  built =>
    \A r \in Range(rows) :
      (\E i \in 1..Len(tree) : tree[i].id = r.id)
        <=> (r.parent_id = Null \/ r.parent_id \notin idsOf(rows))

\* an orphan among the roots, next to a record that is not a root
C6_Witness ==
  /\ act.name = "render"
  /\ \E i \in 1..Len(tree) :
       tree[i].parent_id # Null /\ tree[i].parent_id \notin idsOf(rows)
  /\ \E r \in Range(rows) : \A i \in 1..Len(tree) : tree[i].id # r.id

\* position of the record id in the input sequence
posIn(rs, id) == CHOOSE i \in 1..Len(rs) : rs[i].id = id

\* one sibling sequence: ascending instants, ties in input order
ordered(rs, nodes) ==
  \A i, j \in 1..Len(nodes) :
    i < j =>
      /\ nodes[i].created_at <= nodes[j].created_at
      /\ nodes[i].created_at = nodes[j].created_at
           => posIn(rs, nodes[i].id) < posIn(rs, nodes[j].id)

\* the sibling sequences of the tree: the roots and every replies
siblingSeqs(t) == {t} \cup {n.replies : n \in Range(flatten(t))}

\* C7: the root sequence and every child sequence are in ascending order of
\* creation instant, and records with equal instants keep their relative
\* order from the input sequence.
C7_StableChrono ==
  built => \A s \in siblingSeqs(tree) : ordered(rows, s)

\* siblings given as [c3, c1, c2] with t1 < t2 < t3 come out as [c1, c2, c3]
C7_Witness ==
  /\ act.name = "render"
  /\ Len(rows) = 3
  /\ rows[1].created_at = 3 /\ rows[2].created_at = 1 /\ rows[3].created_at = 2
  /\ \A i \in 1..3 : rows[i].parent_id = Null
  /\ [i \in 1..3 |-> tree[i].id] = <<rows[2].id, rows[3].id, rows[1].id>>

\* two replies of one parent with equal instants stay in input order
C7_WitnessTie ==
  /\ act.name = "render"
  /\ \E n \in Range(flatten(tree)) :
       /\ Len(n.replies) = 2
       /\ n.replies[1].created_at = n.replies[2].created_at
       /\ n.replies[1].id > n.replies[2].id

\* ------------------------------------------------------------------------
\* The loops of buildTree and of the delete updater, one iteration a step,
\* on collections with any parent links: a row may name itself, rows may
\* name each other in a cycle, a parent may be missing.
\* ------------------------------------------------------------------------
\* rows is a collection over ids 1..maxId, in any order, with any links
IsLinked(maxId) ==
  \E S \in SUBSET (1..maxId) :
    \E p \in Perms(S) :
      \E par \in [S -> {Null} \cup (1..maxId)] :
        rows = [i \in 1..Len(p) |-> Row(p[i], par[p[i]], p[i])]

\* ids of an array of nodes
idsIn(arr) == [i \in 1..Len(arr) |-> arr[i].id]

\* the rows of an array of ids, in the array's order
rowsIn(rs, ids) == [i \in 1..Len(ids) |-> rowOf(rs, ids[i])]

\* toRemove.has(cur)
seenNever(cur, removed) == FALSE
seen(cur, removed) == cur \in removed

RECURSIVE Reverse(_)
Reverse(q) == IF q = <<>> THEN <<>> ELSE Reverse(Tail(q)) \o <<Head(q)>>

InitLoops ==
  /\ IsLinked(MaxLoopRows)
  /\ tree = <<>>
  /\ rowsBefore = <<>>
  /\ HandlersUnused
  /\ LoopsUnused
  /\ act = Act("init", Null)
  /\ DmUnused
  /\ ChatUnused
  /\ AuthUnused

LoopsFrame == UNCHANGED <<handlerVars, dmVars, chatVars, authVars>>

\* buildTree(rows), up to sortRec(roots)
StartBuild ==
  /\ loopPc = "idle"
  /\ loopPc' = "sort"
  /\ sortStack' = <<idsIn(rootsOf(rows))>>
  /\ act' = Act("build", Null)
  /\ UNCHANGED <<rows, tree, rowsBefore, walkStack, walkRemove, visits, sortCalls>>
  /\ LoopsFrame

\* one call sortRec(arr): arr.sort(...), then arr.forEach((x) =>
\* sortRec(x.replies)); the calls for the replies are made first to last,
\* each before the next sibling's
SortRecCall ==
  /\ loopPc = "sort"
  /\ sortStack # <<>>
  /\ LET arr == sortByCreated(rowsIn(rows, sortStack[Len(sortStack)]))
         rest == SubSeq(sortStack, 1, Len(sortStack) - 1)
         inner == [i \in 1..Len(arr) |-> idsIn(repliesOf(rows, arr[i]))]
     IN  sortStack' = rest \o Reverse(inner)
  /\ sortCalls' = sortCalls + 1
  /\ act' = Act("sortRec", Null)
  /\ UNCHANGED <<rows, tree, rowsBefore, walkStack, walkRemove, visits, loopPc>>
  /\ LoopsFrame

\* sortRec(roots) has returned: return roots
BuildReturn ==
  /\ loopPc = "sort"
  /\ sortStack = <<>>
  /\ loopPc' = "done"
  /\ tree' = buildTree(rows)
  /\ rowsBefore' = rows
  /\ act' = Act("built", Null)
  /\ UNCHANGED <<rows, walkStack, walkRemove, visits, sortStack, sortCalls>>
  /\ LoopsFrame

\* the setRows updater of deleteComment(id), up to the while loop
StartWalk(id) ==
  /\ loopPc = "idle"
  /\ loopPc' = "walk"
  /\ walkStack' = <<id>>
  /\ walkRemove' = {}
  /\ act' = Act("walk", id)
  /\ UNCHANGED <<rows, tree, rowsBefore, visits, sortStack, sortCalls>>
  /\ LoopsFrame

\* one iteration of while (stack.length)
WalkStep ==
  /\ loopPc = "walk"
  /\ walkStack # <<>>
  /\ LET cur  == walkStack[Len(walkStack)]
         rest == SubSeq(walkStack, 1, Len(walkStack) - 1)
     IN  IF seen(cur, walkRemove)
         THEN /\ walkStack' = rest
              /\ UNCHANGED <<walkRemove, visits>>
         ELSE /\ walkRemove' = walkRemove \cup {cur}
              /\ visits' = Append(visits, cur)
              /\ walkStack' = rest \o kidsOf(rows, cur)
  /\ act' = Act("walkStep", act.arg)
  /\ UNCHANGED <<rows, tree, rowsBefore, sortStack, sortCalls, loopPc>>
  /\ LoopsFrame

\* the loop has ended: the updater returns prev or the filtered rows
WalkReturn ==
  /\ loopPc = "walk"
  /\ walkStack = <<>>
  /\ loopPc' = "done"
  /\ rows' = IF ~has(rows, act.arg) THEN rows
             ELSE SelectSeq(rows, LAMBDA r : r.id \notin walkRemove)
  /\ rowsBefore' = rows
  /\ act' = Act("walked", act.arg)
  /\ UNCHANGED <<tree, walkStack, walkRemove, visits, sortStack, sortCalls>>
  /\ LoopsFrame

NextLoops ==
  \/ StartBuild
  \/ SortRecCall
  \/ BuildReturn
  \/ \E id \in 1..MaxLoopRows : StartWalk(id)
  \/ WalkStep
  \/ WalkReturn

\* a call that has started runs on: the loops are synchronous code
SpecLoops == InitLoops /\ [][NextLoops]_vars /\ WF_vars(NextLoops)

\* C24: on every collection, self-references and cycles included, the while
\* loop of the delete updater adds each id at most once and makes no more
\* iterations than the collection allows, sortRec is called at most once
\* for the roots and once per row, and both calls return.
C24_LoopsTerminate ==
  /\ [](\A a, b \in 1..Len(visits) : visits[a] = visits[b] => a = b)
  /\ [](Len(visits) + Len(walkStack) <= Len(rowsBefore \o rows) + 1)
  /\ [](sortCalls <= Len(rows) + 1)
  /\ [](loopPc = "done" /\ act.name = "walked"
          => walkRemove = toRemoveOf(rowsBefore, act.arg))
  /\ <>(loopPc = "done")

\* C24 witness: the delete updater has returned for a row on a cycle of two
\* rows and removed both.
C24_Witness ==
  /\ loopPc = "done"
  /\ act.name = "walked"
  /\ \E i, j \in 1..Len(rowsBefore) :
       /\ i # j
       /\ rowsBefore[i].id = act.arg
       /\ rowsBefore[i].parent_id = rowsBefore[j].id
       /\ rowsBefore[j].parent_id = act.arg
  /\ Cardinality(walkRemove) >= 2
  /\ Len(rows) < Len(rowsBefore)

\* C24 witness for buildTree: it has returned for a collection in which a
\* row names itself.
C24_WitnessBuild ==
  /\ loopPc = "done"
  /\ act.name = "built"
  /\ \E i \in 1..Len(rows) : rows[i].parent_id = rows[i].id

\* ========================================================================
\* Chat.tsx: dmChannel
\* ========================================================================
\* A string is a sequence of characters. The alphabet has a digit and a
\* letter, as the ids of the identity provider have, and the delimiter.
Chars == {"1", "a", ":"}

\* the UTF-16 code unit of a character, which the < of strings compares
codeOf(c) == CASE c = "1" -> 49 [] c = ":" -> 58 [] c = "a" -> 97

RECURSIVE strLess(_, _)
\* a < b on strings: code units from the left, a proper prefix is less
strLess(a, b) ==
  IF b = <<>> THEN FALSE
  ELSE IF a = <<>> THEN TRUE
  ELSE IF codeOf(Head(a)) # codeOf(Head(b)) THEN codeOf(Head(a)) < codeOf(Head(b))
  ELSE strLess(Tail(a), Tail(b))

\* `dm:${x}:${y}`
dmTemplate(x, y) == <<"d", "m", ":">> \o x \o <<":">> \o y

dmChannelUnsorted(mine, other) == dmTemplate(mine, other)
dmChannelNoDelimiter(mine, other) ==
  IF strLess(mine, other) THEN <<"d", "m", ":">> \o mine \o other
  ELSE <<"d", "m", ":">> \o other \o mine
\* dmChannel(me, other)
dmChannel(mine, other) ==
  IF strLess(mine, other) THEN dmTemplate(mine, other) ELSE dmTemplate(other, mine)

\* non-empty strings: both call sites guard !me || !selected?.id
IdStrings == UNION {[1..n -> Chars] : n \in 1..MaxIdLen}

InitDm ==
  /\ dmMe \in IdStrings
  /\ dmOther \in IdStrings
  /\ chanMine = <<>>
  /\ chanTheirs = <<>>
  /\ act = Act("init", Null)
  /\ CommentsUnused
  /\ ChatUnused
  /\ AuthUnused

\* the first participant's client names the channel of the pair
ChannelMine ==
  /\ chanMine = <<>>
  /\ chanMine' = dmChannel(dmMe, dmOther)
  /\ act' = Act("channel", Null)
  /\ UNCHANGED <<dmMe, dmOther, chanTheirs, commentVars, chatVars, authVars>>

\* the second participant's client names the channel of the pair
ChannelTheirs ==
  /\ chanTheirs = <<>>
  /\ chanTheirs' = dmChannel(dmOther, dmMe)
  /\ act' = Act("channel", Null)
  /\ UNCHANGED <<dmMe, dmOther, chanMine, commentVars, chatVars, authVars>>

NextDm == ChannelMine \/ ChannelTheirs

\* dmChannel applied to every bounded pair of ids, in both argument orders
SpecDm == InitDm /\ [][NextDm]_vars

\* ------------------------------------------------------------------------
\* Properties of dmChannel
\* ------------------------------------------------------------------------
noColon(str) == \A i \in 1..Len(str) : str[i] # ":"

\* C8: the channel one participant derives for the pair equals the channel
\* the other participant derives: dmChannel(a, b) = dmChannel(b, a).
C8_Symmetric ==
  (chanMine # <<>> /\ chanTheirs # <<>>) => chanMine = chanTheirs

\* both clients have named the channel of a pair of different ids
C8_Witness ==
  /\ chanMine # <<>>
  /\ chanTheirs # <<>>
  /\ dmMe # dmOther
  /\ strLess(dmOther, dmMe)

\* C9 as claimed: for arbitrary id strings another pair never yields the
\* channel of this pair.
C9_InjectiveAnyString ==
  chanMine # <<>> =>
    \A c, d \in IdStrings :
      dmChannel(c, d) = chanMine => {c, d} = {dmMe, dmOther}

\* C9 amended: for id strings without the delimiter ':' another pair never
\* yields the channel of this pair.
C9_InjectiveNoColon ==
  (chanMine # <<>> /\ noColon(dmMe) /\ noColon(dmOther)) =>
    \A c, d \in {x \in IdStrings : noColon(x)} :
      dmChannel(c, d) = chanMine => {c, d} = {dmMe, dmOther}

\* the channel of two delimiter-free ids of different lengths
C9_Witness ==
  /\ chanMine # <<>>
  /\ noColon(dmMe)
  /\ noColon(dmOther)
  /\ Len(dmMe) # Len(dmOther)

\* ========================================================================
\* Chat.tsx: the message list
\* ========================================================================
\* the viewer's account id, and the other members in display_name order
Viewer == 1
Members == <<2, 3>>

\* composer inputs: empty, blank, and a text
Texts == {"", " ", "hi"}

\* text.trim()
trim(t) == IF t = " " THEN "" ELSE t

\* type Message. created_at is the clock that stamped the record: the
\* client's for an optimistic record, the server's for a stored one.
Message(id, s, r, b, clock) ==
  [id |-> id, sender_id |-> s, receiver_id |-> r, body |-> b, created_at |-> clock]

\* samePair(m, me, other)
samePairOneWay(m, mine, other) == m.sender_id = other /\ m.receiver_id = mine
samePair(m, mine, other) ==
  \/ (m.sender_id = mine /\ m.receiver_id = other)
  \/ (m.sender_id = other /\ m.receiver_id = mine)

\* the setMessages updater of the realtime INSERT handler
onInsertNoDedup(prev, m) == Append(prev, m)
onInsert(prev, m) ==
  IF \E i \in 1..Len(prev) : prev[i].id = m.id THEN prev ELSE Append(prev, m)

\* the setMessages updater of send(), run before the insert is awaited
appendOnConfirm(prev, optimistic) == prev
appendOptimistic(prev, optimistic) == Append(prev, optimistic)

\* the setMessages updater of a failed send
rollbackPop(prev, id) == SubSeq(prev, 1, Len(prev) - 1)
rollback(prev, id) == SelectSeq(prev, LAMBDA m : m.id # id)

\* the query of loadMessages, run on the first n rows of the table
queryMessages(n, mine, other) ==
  SelectSeq(SubSeq(db, 1, n), LAMBDA m : samePair(m, mine, other))

\* the others of loadProfiles: list.filter((p) => p.id !== me)
othersOf(mine) == SelectSeq(<<Viewer>> \o Members, LAMBDA p : p # mine)

\* a row reaches every subscribed channel
publish(m) == events \cup {[chan |-> h, msg |-> m] : h \in sub}

\* the component as mounted, before the auth context has a user
InitChatAuth ==
  /\ ChatUnused
  /\ act = Act("init", Null)
  /\ CommentsUnused
  /\ DmUnused
  /\ AuthUnused

\* the component as mounted, the auth context has published the viewer and
\* the effects of that render have not run yet
InitChat ==
  /\ me = Viewer /\ profiles = <<>> /\ selected = Null /\ messages = <<>>
  /\ text = "" /\ chatError = "" /\ effMe = Null /\ effSel = Null
  /\ sub = {} /\ events = {} /\ db = <<>> /\ nextId = 1
  /\ sends = {} /\ loads = {} /\ profLoads = 0 /\ chatMounted = TRUE
  /\ act = Act("init", Null)
  /\ CommentsUnused
  /\ DmUnused
  /\ AuthUnused

ChatFrame == UNCHANGED <<commentVars, dmVars, authVars, chatMounted>>

\* the auth context publishes another user (sign-in or sign-out)
AuthChange ==
  /\ chatMounted
  /\ me' = IF me = Null THEN Viewer ELSE Null
  /\ act' = Act("authChange", me')
  /\ UNCHANGED <<profiles, selected, messages, text, chatError, effMe, effSel,
                 sub, events, db, nextId, sends, loads, profLoads>>
  /\ ChatFrame

\* the cleanup of the subscription effect: supabase.removeChannel(channel)
\* of the channel the last run of the effect made
cleanupNone(chans) == chans
cleanup(chans) == chans \ {<<effMe, effSel>>}

\* the passive effects of the commit of a render with selected?.id = sel,
\* when me or sel differ from the last run: the cleanup of the subscription
\* effect, then the three effect bodies
effects(sel) ==
  LET meChanged == me # effMe
      signedOut == meChanged /\ me = Null
      active    == me # Null /\ sel # Null
  IN  /\ active => Cardinality(loads) < MaxLoads
      /\ (meChanged /\ me # Null) => profLoads < MaxProfLoads
      \* useEffect [me]
      /\ profiles' = IF signedOut THEN <<>> ELSE profiles
      /\ selected' = IF signedOut THEN Null ELSE sel
      /\ profLoads' = IF meChanged /\ me # Null THEN profLoads + 1 ELSE profLoads
      \* useEffect [me, selected?.id]: load
      /\ messages' = IF active THEN messages ELSE <<>>
      /\ loads' = IF active
                  THEN loads \cup {[other |-> sel, from |-> Len(db)]}
                  ELSE loads
      /\ chatError' = IF me # Null THEN "" ELSE chatError
      \* useEffect [me, selected?.id]: subscription
      /\ sub' = cleanup(sub) \cup (IF active THEN {<<me, sel>>} ELSE {})
      /\ events' = {e \in events : e.chan \in cleanup(sub)}
      /\ effMe' = me
      /\ effSel' = sel

\* the effects of a render that no discrete event caused (the auth context
\* changed, loadProfiles answered) run in a task of their own
RunEffects ==
  /\ (me # effMe \/ selected # effSel)
  /\ effects(selected)
  /\ act' = Act("effects", selected)
  /\ UNCHANGED <<me, text, db, nextId, sends>>
  /\ ChatFrame

\* loadProfiles: the query answers with the list
ProfilesLoaded ==
  /\ profLoads > 0
  /\ profLoads' = profLoads - 1
  /\ profiles' = othersOf(Viewer)
  /\ selected' = IF selected # Null /\ selected \in Range(othersOf(Viewer))
                 THEN selected
                 ELSE IF othersOf(Viewer) # <<>> THEN othersOf(Viewer)[1] ELSE Null
  /\ act' = Act("profilesLoaded", Null)
  /\ UNCHANGED <<me, messages, text, chatError, effMe, effSel, sub, events, db,
                 nextId, sends, loads>>
  /\ ChatFrame

\* loadProfiles: the query answers with an error
ProfilesFailed ==
  /\ profLoads > 0
  /\ profLoads' = profLoads - 1
  /\ profiles' = <<>>
  /\ selected' = Null
  /\ chatError' = "error"
  /\ act' = Act("profilesFailed", Null)
  /\ UNCHANGED <<me, messages, text, effMe, effSel, sub, events, db,
                 nextId, sends, loads>>
  /\ ChatFrame

\* click on a member of the list: setSelected(p); the render of a click
\* commits and runs its effects before the click's task ends
SelectProfile(p) ==
  /\ me = effMe /\ selected = effSel
  /\ p \in Range(profiles)
  /\ p # selected
  /\ effects(p)
  /\ act' = Act("select", p)
  /\ UNCHANGED <<me, text, db, nextId, sends>>
  /\ ChatFrame

\* the early returns of send(): it goes on with a viewer, a selected member
\* and a body that is not blank
sendableAnyBody(t) == me # Null /\ selected # Null
sendable(t) == me # Null /\ selected # Null /\ trim(t) # ""

\* the composer holds t (onChange: setText) and the viewer submits: send(),
\* up to the await of the insert
Send(t) ==
  /\ sendable(t)
  /\ nextId <= MaxMsgs
  /\ chatError' = ""
  /\ text' = ""
  /\ messages' = appendOptimistic(messages, Message(nextId, me, selected, trim(t), "client"))
  /\ sends' = sends \cup {[id |-> nextId, sender |-> me, other |-> selected,
                            body |-> trim(t), stored |-> FALSE, pre |-> messages]}
  /\ nextId' = nextId + 1
  /\ act' = Act("send", nextId)
  /\ UNCHANGED <<me, profiles, selected, effMe, effSel, sub, events, db, loads,
                 profLoads>>
  /\ ChatFrame

\* Enter in a composer that holds t: send() returns at one of its guards.
\* The input is disabled without a viewer or a selected member.
SendNothing(t) ==
  /\ ~sendable(t)
  /\ text' = IF me # Null /\ selected # Null THEN t ELSE text
  /\ act' = Act("sendNothing", Null)
  /\ UNCHANGED <<me, profiles, selected, messages, chatError, effMe, effSel,
                 sub, events, db, nextId, sends, loads, profLoads>>
  /\ ChatFrame

\* the backend stores the row of a send and publishes it
StoreSent(s) ==
  /\ s \in sends
  /\ ~s.stored
  /\ LET m == Message(s.id, s.sender, s.other, s.body, "server")
     IN  /\ db' = Append(db, m)
         /\ events' = publish(m)
  /\ sends' = (sends \ {s}) \cup {[s EXCEPT !.stored = TRUE]}
  /\ act' = Act("stored", s.id)
  /\ UNCHANGED <<me, profiles, selected, messages, text, chatError, effMe, effSel,
                 sub, nextId, loads, profLoads>>
  /\ ChatFrame

\* send(), after the await: the insert succeeded
SendConfirmed(s) ==
  /\ s \in sends
  /\ s.stored
  /\ sends' = sends \ {s}
  /\ act' = Act("sendConfirmed", s.id)
  /\ UNCHANGED <<me, profiles, selected, messages, text, chatError, effMe, effSel,
                 sub, events, db, nextId, loads, profLoads>>
  /\ ChatFrame

\* send(), after the await: the insert failed
SendFailed(s) ==
  /\ s \in sends
  /\ ~s.stored
  /\ sends' = sends \ {s}
  /\ chatError' = "error"
  /\ messages' = rollback(messages, s.id)
  /\ act' = Act("sendFailed", s.id)
  /\ UNCHANGED <<me, profiles, selected, text, effMe, effSel, sub, events, db,
                 nextId, loads, profLoads>>
  /\ ChatFrame

\* a row written by another client: a member writes to the viewer
OtherInsert(s, r) ==
  /\ nextId <= MaxMsgs
  /\ LET m == Message(nextId, s, r, "hi", "server")
     IN  /\ db' = Append(db, m)
         /\ events' = publish(m)
  /\ nextId' = nextId + 1
  /\ act' = Act("otherInsert", nextId)
  /\ UNCHANGED <<me, profiles, selected, messages, text, chatError, effMe, effSel,
                 sub, sends, loads, profLoads>>
  /\ ChatFrame

\* the realtime INSERT handler of channel e.chan; the backend may deliver
\* the same event again
Deliver(e, again) ==
  /\ e \in events
  /\ messages' = IF samePair(e.msg, e.chan[1], e.chan[2]) THEN onInsert(messages, e.msg)
                 ELSE messages
  /\ events' = IF again THEN events ELSE events \ {e}
  /\ act' = Act("deliver", e.msg.id)
  /\ UNCHANGED <<me, profiles, selected, text, chatError, effMe, effSel, sub, db,
                 nextId, sends, loads, profLoads>>
  /\ ChatFrame

\* loadMessages, after the await: the query ran when the table had n rows
MessagesLoaded(l, n) ==
  /\ l \in loads
  /\ n \in l.from..Len(db)
  /\ loads' = loads \ {l}
  /\ messages' = queryMessages(n, Viewer, l.other)
  /\ act' = Act("messagesLoaded", l.other)
  /\ UNCHANGED <<me, profiles, selected, text, chatError, effMe, effSel, sub,
                 events, db, nextId, sends, profLoads>>
  /\ ChatFrame

\* loadMessages, after the await: the query failed
MessagesFailed(l) ==
  /\ l \in loads
  /\ loads' = loads \ {l}
  /\ chatError' = "error"
  /\ act' = Act("messagesFailed", l.other)
  /\ UNCHANGED <<me, profiles, selected, messages, text, effMe, effSel, sub,
                 events, db, nextId, sends, profLoads>>
  /\ ChatFrame

\* the steps that read or write the list, the table, the subscription or
\* the calls in flight
NextStore ==
  \/ RunEffects
  \/ ProfilesLoaded
  \/ ProfilesFailed
  \/ \E p \in Range(Members) : SelectProfile(p)
  \/ \E t \in Texts : Send(t)
  \/ \E s \in sends : StoreSent(s)
  \/ \E s \in sends : SendConfirmed(s)
  \/ \E s \in sends : SendFailed(s)
  \/ \E p \in Range(Members) : OtherInsert(p, Viewer)
  \/ \E e \in events, again \in BOOLEAN : Deliver(e, again)
  \/ \E l \in loads, n \in 0..MaxMsgs : MessagesLoaded(l, n)
  \/ \E l \in loads : MessagesFailed(l)

NextChat ==
  \/ NextStore
  \/ \E t \in Texts : SendNothing(t)

\* the message store of a signed-in viewer
SpecChat == InitChat /\ [][NextChat]_vars

\* the component unmounts: the cleanup of the subscription effect runs and
\* React drops what the pending calls set afterwards
ChatUnmount ==
  /\ chatMounted
  /\ chatMounted' = FALSE
  /\ sub' = cleanup(sub)
  /\ events' = {e \in events : e.chan \in cleanup(sub)}
  /\ act' = Act("unmount", Null)
  /\ UNCHANGED <<me, profiles, selected, messages, text, chatError, effMe, effSel,
                 db, nextId, sends, loads, profLoads>>
  /\ UNCHANGED <<commentVars, dmVars, authVars>>

\* a refused send() touches the composer only and is left to SpecChat
NextChatAuth ==
  \/ (chatMounted /\ NextStore)
  \/ AuthChange
  \/ ChatUnmount

\* the message store across sign-in, sign-out and unmount
SpecChatAuth == InitChatAuth /\ [][NextChatAuth]_vars

\* ------------------------------------------------------------------------
\* Properties of the message store
\* ------------------------------------------------------------------------
idCount(list, id) == Cardinality({i \in 1..Len(list) : list[i].id = id})

\* C2: no two entries of the message list share an identifier, whatever the
\* interleaving of historical loads, optimistic sends, realtime pushes and
\* rollbacks.
C2_UniqueIds ==
  \A i, j \in 1..Len(messages) : i # j => messages[i].id # messages[j].id

\* the realtime push of an optimistic send reached the handler of its pair
\* while the optimistic record was in the list: one entry with that id
C2_Witness ==
  /\ act.name = "deliver"
  /\ sub # {}
  /\ \E i \in 1..Len(messages) :
       /\ messages[i].id = act.arg
       /\ messages[i].created_at = "client"
       /\ \A h \in sub : samePair(messages[i], h[1], h[2])
  /\ idCount(messages, act.arg) = 1

\* the step in which the insert of send s fails
failsIn(s) == act'.name = "sendFailed" /\ act'.arg = s.id /\ s \notin sends'

\* the optimistic record of send s
optimisticOf(s) == Message(s.id, s.sender, s.other, s.body, "client")

\* C3 as claimed: after a failed insert the list is the list as it was
\* immediately before that send.
C3_RollbackRestoresPreSend ==
  [][\A s \in sends : failsIn(s) => messages' = s.pre]_vars

\* C3 amended: a failed insert removes the entry with the id of that send and
\* keeps every other entry in place; the result is the pre-send list when
\* nothing but the optimistic append changed the list since the send.
C3_RollbackRemovesOnlyFailed ==
  [][\A s \in sends : failsIn(s) =>
        /\ idCount(messages', s.id) = 0
        /\ messages' = SelectSeq(messages, LAMBDA m : m.id # s.id)
        /\ (messages = Append(s.pre, optimisticOf(s)) => messages' = s.pre)]_vars

\* a rollback that leaves a message behind which arrived after the send
C3_Witness ==
  /\ act.name = "sendFailed"
  /\ chatError = "error"
  /\ \E i \in 1..Len(messages) : messages[i].id > act.arg

\* C11: once the active conversation has changed from pair P to pair Q, a
\* realtime event is appended to the message list only by the handler of the
\* subscription of the active pair and only if it belongs to that pair; the
\* handler of a subscription made for an earlier pair appends nothing.
C11_NoStaleDelivery ==
  [][act'.name = "deliver" =>
       \/ messages' = messages
       \/ \E e \in events :
            /\ e.msg.id = act'.arg
            /\ e.chan = <<me, selected>>
            /\ samePair(e.msg, me, selected)
            /\ messages' = Append(messages, e.msg)]_vars

\* C11 witness: the viewer has switched from the first member to the second,
\* the first member then wrote, and the event has been handled with the list
\* left without that message.
C11_Witness ==
  /\ act.name = "deliver"
  /\ selected = Members[2]
  /\ sub = {<<me, selected>>}
  /\ \E i \in 1..Len(db) :
       /\ db[i].id = act.arg
       /\ samePair(db[i], Viewer, Members[1])
       /\ idCount(messages, db[i].id) = 0

\* C14: a realtime push is appended to the message list if and only if its
\* sender and receiver are the viewer and the selected member, in either
\* direction, and the list holds no entry with its identifier; otherwise
\* the list is left unchanged.
C14_AppendIffPairAndNew ==
  [][act'.name = "deliver" =>
       \A e \in events :
         e.msg.id = act'.arg =>
           messages' =
             IF /\ {e.msg.sender_id, e.msg.receiver_id} = {me, selected}
                /\ \A i \in 1..Len(messages) : messages[i].id # e.msg.id
             THEN Append(messages, e.msg)
             ELSE messages]_vars

\* C14 witness: the list holds a pushed message of each direction, the
\* viewer's own (its optimistic record was replaced by a load) and then the
\* member's, which the handler has just appended.
C14_Witness ==
  /\ act.name = "deliver"
  /\ Len(messages) = 2
  /\ messages[1].sender_id = me
  /\ messages[1].created_at = "server"
  /\ messages[2].sender_id = selected
  /\ messages[2].id = act.arg

\* the subscription that the state of the component calls for
wanted == IF me # Null /\ selected # Null THEN {<<me, selected>>} ELSE {}

\* C15 as claimed: at every moment at most one subscription is active and it
\* is the one of the viewer and the selected member.
C15_OneSubscriptionEveryMoment ==
  /\ Cardinality(sub) <= 1
  /\ sub \subseteq wanted

\* C15 amended: at every moment at most one subscription is active, the one
\* the last run of the effects made; once the effects of a render have run
\* it is the one of the viewer and the selected member (none when either is
\* missing), and after the unmount there is none. Between a sign-out and the
\* run of its effects the subscription of the signed-out viewer is still
\* the active one.
C15_OneSubscriptionOnceEffectsRan ==
  /\ Cardinality(sub) <= 1
  /\ sub \subseteq {<<effMe, effSel>>}
  /\ (chatMounted /\ me = effMe /\ selected = effSel) => sub = wanted
  /\ ~chatMounted => sub = {}

\* C15 witness: the viewer has signed out of a conversation and the effects
\* of that render have removed its subscription.
C15_Witness ==
  /\ act.name = "effects"
  /\ me = Null
  /\ sub = {}
  /\ db # <<>>
  /\ messages = <<>>

\* C20: send() appends the optimistic record of id X before the insert is
\* stored, confirmed or echoed; the realtime echo of X and the confirmation
\* of X, in whichever order they are handled, leave a list that holds X
\* exactly as it is, with its one entry of id X.
C20_OptimisticBeforeEchoAndConfirm ==
  [][/\ act'.name = "send" =>
          /\ Len(messages') = Len(messages) + 1
          /\ messages'[Len(messages')].id = act'.arg
          /\ messages'[Len(messages')].created_at = "client"
          /\ SubSeq(messages', 1, Len(messages)) = messages
          /\ \A i \in 1..Len(db) : db[i].id # act'.arg
          /\ \A e \in events : e.msg.id # act'.arg
          /\ \E s \in sends' : s.id = act'.arg /\ ~s.stored
     /\ (act'.name \in {"deliver", "sendConfirmed"} /\ idCount(messages, act'.arg) = 1)
          => messages' = messages]_vars

\* C20 witness: the echo of a send has been handled while its confirmation
\* is still awaited; the list holds the optimistic record and no second
\* entry of that id.
C20_Witness ==
  /\ act.name = "deliver"
  /\ \E s \in sends : s.id = act.arg /\ s.stored
  /\ idCount(messages, act.arg) = 1
  /\ \E i \in 1..Len(messages) :
       messages[i].id = act.arg /\ messages[i].created_at = "client"

\* C21: whenever the effects of the last render have run and no load of
\* the active pair is outstanding, every message of the list is one of the
\* active pair.
C21_ListOfActivePair ==
  (/\ me # Null /\ selected # Null
   /\ me = effMe /\ selected = effSel
   /\ \A l \in loads : l.other # selected)
    => \A i \in 1..Len(messages) : samePair(messages[i], me, selected)

\* C22: a failed insert removes the record of that id, shows the backend's
\* error and leaves the composer as the submit cleared it; a send() that
\* returns at a guard changes neither the list, the error nor the table and
\* starts no insert, and every send() that starts one has a viewer, a
\* selected member and a body that is not blank.
C22_FailedAndRefusedSends ==
  [][/\ \A s \in sends : failsIn(s) =>
          /\ idCount(messages', s.id) = 0
          /\ chatError' = "error"
          /\ text' = text
          /\ db' = db
     /\ act'.name = "sendNothing" =>
          UNCHANGED <<messages, chatError, sends, db, events, nextId>>
     /\ act'.name = "send" =>
          /\ me # Null /\ selected # Null
          /\ text' = ""
          /\ \E s \in sends' \ sends : s.id = act'.arg /\ trim(s.body) # ""
          /\ messages'[Len(messages')].body # ""]_vars

\* C22 witness: the insert of the only message of the list failed; the list
\* is empty again, the error shows and the composer is still empty.
C22_Witness ==
  /\ act.name = "sendFailed"
  /\ chatError = "error"
  /\ text = ""
  /\ messages = <<>>
  /\ db = <<>>

\* C22 witness of the refused send: Enter on a blank composer.
C22_WitnessBlank ==
  /\ act.name = "sendNothing"
  /\ me # Null /\ selected # Null
  /\ text = " "
  /\ sends = {}

\* a message of the active pair that the backend holds and that the client
\* knows it holds: its insert was confirmed, or a push or a load brought it
settled(m) ==
  /\ me # Null /\ selected # Null
  /\ samePair(m, me, selected)
  /\ \E j \in 1..Len(db) : db[j].id = m.id
  /\ (m.created_at = "server" \/ \A s \in sends : s.id # m.id)

\* C26: while the active pair stays the same, a confirmed or delivered
\* message of the list is still in the list after every step.
C26_SettledMessageStays ==
  [][(me' = me /\ selected' = selected) =>
        \A i \in 1..Len(messages) :
           settled(messages[i]) => idCount(messages', messages[i].id) >= 1]_vars

\* ========================================================================
\* Comments.tsx: the handlers
\* ========================================================================
\* the ids of S in ascending order
ascending(S) == CHOOSE q \in Perms(S) : \A i, j \in 1..Len(q) : i < j => q[i] < q[j]

\* the tables the backing store can hold at mount: comments 1..maxId in
\* creation order, every reply with its parent in the table
Tables(maxId) ==
  UNION {{[i \in 1..Cardinality(S) |->
             Row(ascending(S)[i], par[ascending(S)[i]], ascending(S)[i])] :
            par \in {f \in ParentsOf(S, maxId) : \A x \in S : f[x] \in S \cup {Null}}} :
         S \in SUBSET (1..maxId)}

\* the error strings of Comments
SignInToComment == "Inicia sesion para comentar."
SignInToManage == "Inicia sesion para administrar tus comentarios."
BackendError == "error.message"

\* rows after the answer to the delete of id: the setRows updater runs when
\* the backend reported no error
rowsAfterDeleteAlways(prev, id, answer) == pruneRows(prev, id)
rowsAfterDelete(prev, id, answer) == IF answer = "ok" THEN pruneRows(prev, id) ELSE prev

\* the component as mounted: the load() of the mount effect awaits its query
InitComments ==
  /\ rows = <<>> /\ tree = <<>> /\ rowsBefore = <<>>
  /\ commentUser \in {Null, Viewer}
  /\ replyTo = Null /\ busyId = Null /\ commentError = ""
  /\ comments \in Tables(MaxStored)
  /\ nextRow = MaxStored + 1
  /\ deletes = {}
  /\ submits = {} /\ submitCount = 0
  /\ rowLoads = 1
  /\ LoopsUnused
  /\ act = Act("init", Null)
  /\ DmUnused
  /\ ChatUnused
  /\ AuthUnused

CommentsFrame == UNCHANGED <<loopVars, dmVars, chatVars, authVars>>

\* the auth context publishes another user (sign-in or sign-out)
CommentUserChange ==
  /\ commentUser' = IF commentUser = Null THEN Viewer ELSE Null
  /\ act' = Act("userChange", commentUser')
  /\ UNCHANGED <<rows, tree, rowsBefore, replyTo, busyId, commentError, comments,
                 nextRow, deletes, submits, submitCount, rowLoads>>
  /\ CommentsFrame

\* load(), after the await
LoadAnswered(ok) ==
  /\ rowLoads > 0
  /\ rowLoads' = rowLoads - 1
  /\ IF ok
     THEN /\ rows' = comments
          /\ tree' = buildTree(comments)
          /\ UNCHANGED commentError
     ELSE /\ commentError' = BackendError
          /\ UNCHANGED <<rows, tree>>
  /\ act' = Act(IF ok THEN "loaded" ELSE "loadFailed", Null)
  /\ UNCHANGED <<rowsBefore, commentUser, replyTo, busyId, comments, nextRow,
                 deletes, submits, submitCount>>
  /\ CommentsFrame

\* the Responder button of comment id: setReplyTo(c.id)
Reply(id) ==
  /\ has(rows, id)
  /\ replyTo # id
  /\ replyTo' = id
  /\ act' = Act("reply", id)
  /\ UNCHANGED <<rows, tree, rowsBefore, commentUser, busyId, commentError,
                 comments, nextRow, deletes, submits, submitCount,
                 rowLoads>>
  /\ CommentsFrame

\* the Cancelar button: setReplyTo(null)
CancelReply ==
  /\ replyTo # Null
  /\ replyTo' = Null
  /\ act' = Act("cancelReply", Null)
  /\ UNCHANGED <<rows, tree, rowsBefore, commentUser, busyId, commentError,
                 comments, nextRow, deletes, submits, submitCount,
                 rowLoads>>
  /\ CommentsFrame

\* the composer holds t and the viewer submits: submit(), up to the await
Submit(t) ==
  /\ IF commentUser = Null
     THEN /\ commentError' = SignInToComment
          /\ act' = Act("submitDenied", Null)
          /\ UNCHANGED <<submits, submitCount>>
     ELSE IF trim(t) = ""
     THEN /\ commentError' = ""
          /\ act' = Act("submitEmpty", Null)
          /\ UNCHANGED <<submits, submitCount>>
     ELSE /\ submitCount < MaxSubmits
          /\ commentError' = ""
          /\ submitCount' = submitCount + 1
          /\ submits' = submits \cup {[parent_id |-> replyTo]}
          /\ act' = Act("submit", replyTo)
  /\ UNCHANGED <<rows, tree, rowsBefore, commentUser, replyTo, busyId, comments,
                 nextRow, deletes, rowLoads>>
  /\ CommentsFrame

\* the insert of a submit and what follows the await; the table takes a
\* reply only if its parent is stored
SubmitAnswered(sb, ok) ==
  /\ sb \in submits
  /\ submits' = submits \ {sb}
  /\ IF ok /\ (sb.parent_id = Null \/ has(comments, sb.parent_id))
     THEN /\ comments' = Append(comments, Row(nextRow, sb.parent_id, nextRow))
          /\ nextRow' = nextRow + 1
          /\ replyTo' = Null
          /\ commentError' = ""
          /\ rowLoads' = rowLoads + 1
          /\ act' = Act("submitted", nextRow)
     ELSE /\ commentError' = BackendError
          /\ act' = Act("submitFailed", Null)
          /\ UNCHANGED <<comments, nextRow, replyTo, rowLoads>>
  /\ UNCHANGED <<rows, tree, rowsBefore, commentUser, busyId, deletes, submitCount>>
  /\ CommentsFrame

\* the Eliminar button of comment id: deleteComment(id), up to the await;
\* confirmed is the answer to window.confirm
DeleteCommentUpTo(cap, id, confirmed) ==
  /\ has(rows, id)
  /\ busyId # id
  /\ IF commentUser = Null
     THEN /\ commentError' = SignInToManage
          /\ act' = Act("deleteDenied", id)
          /\ UNCHANGED <<busyId, deletes>>
     ELSE IF ~confirmed
     THEN /\ commentError' = ""
          /\ act' = Act("deleteDeclined", id)
          /\ UNCHANGED <<busyId, deletes>>
     ELSE /\ Cardinality(deletes) < cap
          /\ commentError' = ""
          /\ busyId' = id
          /\ deletes' = deletes \cup {[id |-> id, replyTo |-> replyTo,
                                        answer |-> "pending"]}
          /\ act' = Act("delete", id)
  /\ UNCHANGED <<rows, tree, rowsBefore, commentUser, replyTo, comments, nextRow,
                 submits, submitCount, rowLoads>>
  /\ CommentsFrame

DeleteComment(id, confirmed) == DeleteCommentUpTo(MaxDeletes, id, confirmed)

\* the backend runs the delete of d: the comment goes with its replies
DeleteStored(d, ok) ==
  /\ d \in deletes
  /\ d.answer = "pending"
  /\ comments' = IF ok
                 THEN SelectSeq(comments, LAMBDA r : r.id \notin toRemoveOf(comments, d.id))
                 ELSE comments
  /\ deletes' = (deletes \ {d}) \cup {[d EXCEPT !.answer = IF ok THEN "ok" ELSE "error"]}
  /\ act' = Act("deleteStored", d.id)
  /\ UNCHANGED <<rows, tree, rowsBefore, commentUser, replyTo, busyId, commentError,
                 nextRow, submits, submitCount, rowLoads>>
  /\ CommentsFrame

\* deleteComment, after the await; replyTo is the one of the render that
\* made the handler
DeleteAnswered(d) ==
  /\ d \in deletes
  /\ d.answer # "pending"
  /\ deletes' = deletes \ {d}
  /\ rows' = rowsAfterDelete(rows, d.id, d.answer)
  /\ tree' = buildTree(rows')
  /\ commentError' = IF d.answer = "error" THEN BackendError ELSE commentError
  /\ replyTo' = IF d.answer = "ok" /\ d.replyTo = d.id THEN Null ELSE replyTo
  /\ busyId' = Null
  /\ act' = Act(IF d.answer = "ok" THEN "deleted" ELSE "deleteFailed", d.id)
  /\ UNCHANGED <<rowsBefore, commentUser, comments, nextRow, submits,
                 submitCount, rowLoads>>
  /\ CommentsFrame

NextComments ==
  \/ CommentUserChange
  \/ \E ok \in BOOLEAN : LoadAnswered(ok)
  \/ \E id \in 1..(MaxStored + MaxSubmits) : Reply(id)
  \/ CancelReply
  \/ \E t \in Texts : Submit(t)
  \/ \E sb \in submits, ok \in BOOLEAN : SubmitAnswered(sb, ok)
  \/ \E id \in 1..(MaxStored + MaxSubmits), confirmed \in BOOLEAN : DeleteComment(id, confirmed)
  \/ \E d \in deletes, ok \in BOOLEAN : DeleteStored(d, ok)
  \/ \E d \in deletes : DeleteAnswered(d)

\* the comment handlers over every table of the bound
SpecComments == InitComments /\ [][NextComments]_vars

\* deletes and loads alone, with up to MaxOverlap deletes in flight
NextDeletes ==
  \/ \E ok \in BOOLEAN : LoadAnswered(ok)
  \/ \E id \in 1..MaxStored, confirmed \in BOOLEAN :
       DeleteCommentUpTo(MaxOverlap, id, confirmed)
  \/ \E d \in deletes, ok \in BOOLEAN : DeleteStored(d, ok)
  \/ \E d \in deletes : DeleteAnswered(d)

SpecDeletes == InitComments /\ [][NextDeletes]_vars

\* ------------------------------------------------------------------------
\* Properties of the comment handlers
\* ------------------------------------------------------------------------
\* C12: when the answer to a successful delete has been handled, a reply
\* target that is among the removed identifiers (the deleted comment or one
\* of its descendants) is cleared, also when it was selected while the
\* delete was in flight.
C12_ReplyTargetCleared ==
  [][(act'.name = "deleted" /\ replyTo \in toRemoveOf(rows, act'.arg))
       => replyTo' = Null]_vars

\* C13: the flat collection is pruned only by the answer to a delete that
\* the backing store has carried out; a denied, declined or failed delete
\* leaves it unchanged, and a denied or failed one sets an error string.
C13_PruneOnlyAfterStoreDelete ==
  [][/\ act'.name \in {"deleteDenied", "deleteDeclined", "delete", "deleteStored",
                       "deleteFailed"} => rows' = rows
     /\ act'.name \in {"deleteDenied", "deleteFailed"} => commentError' # ""
     /\ act'.name = "deleted" => ~has(comments, act'.arg)
     /\ rows' # rows => act'.name \in {"deleted", "loaded"}]_vars

\* C13 witness: the backend has refused the delete of a comment that has a
\* reply; the handler has answered, the error shows and the rows are there.
C13_Witness ==
  /\ act.name = "deleteFailed"
  /\ commentError = BackendError
  /\ has(rows, act.arg)
  /\ kidsOf(rows, act.arg) # <<>>
  /\ busyId = Null

\* C29: busyId is the id of every delete in flight, and Null when none is.
C29_BusyIdTracksDeletes ==
  /\ \A d \in deletes : busyId = d.id
  /\ deletes = {} => busyId = Null

\* ========================================================================
\* AuthProvider.tsx
\* ========================================================================
\* The identity provider's user of an account: account 1 has a full name and
\* a picture, account 2 has an email only. A string is a sequence of
\* characters, NoStr where the field is missing.
UserOf(u) ==
  IF u = 1
  THEN [id |-> 1, full_name |-> <<"A", "n", "n">>, name |-> NoStr,
        email |-> <<"a", "@", "x">>, avatar_url |-> NoStr,
        picture |-> <<"p", "n", "g">>]
  ELSE [id |-> u, full_name |-> NoStr, name |-> NoStr,
        email |-> <<"b", "o", "b", "@", "x">>, avatar_url |-> NoStr,
        picture |-> NoStr]

RECURSIVE beforeAt(_)
\* email.split("@")[0]
beforeAt(str) ==
  IF str = <<>> \/ Head(str) = "@" THEN <<>>
  ELSE <<Head(str)>> \o beforeAt(Tail(str))

\* a || b
orElse(a, b) == IF a # NoStr THEN a ELSE b

\* buildProfileDefaults(user)
buildProfileDefaults(u) ==
  [display_name |->
     orElse(u.full_name,
       orElse(u.name,
         orElse(beforeAt(u.email), <<"U", "s", "u", "a", "r", "i", "o">>))),
   avatar_url |-> orElse(u.avatar_url, u.picture)]

\* the placeholder of hydrateFromSession
placeholderOf(u) ==
  [id |-> u.id, display_name |-> buildProfileDefaults(u).display_name,
   avatar_url |-> buildProfileDefaults(u).avatar_url]

\* the row ensureProfile inserts
insertedRow(u) == placeholderOf(u)

\* the patch of ensureProfile applied to a row: only fields that existing
\* lacks and the defaults have
patched(row, existing, defaults) ==
  [row EXCEPT !.display_name = IF existing.display_name = NoStr /\ defaults.display_name # NoStr
                               THEN defaults.display_name ELSE @,
              !.avatar_url = IF existing.avatar_url = NoStr /\ defaults.avatar_url # NoStr
                             THEN defaults.avatar_url ELSE @]

\* Object.keys(patch).length > 0
hasPatch(existing, defaults) ==
  \/ (existing.display_name = NoStr /\ defaults.display_name # NoStr)
  \/ (existing.avatar_url = NoStr /\ defaults.avatar_url # NoStr)

\* selectProfile(userId): the row, or null on an error or a missing row
selectProfile(u, ok) == IF ok THEN store[u] ELSE NoProfile

\* commitIfLatest(runId, fn) runs fn
commitIfLatestNoGuard(runId) == mountedRef
commitIfLatest(runId) == mountedRef /\ runId = runIdRef

RECURSIVE trimLeft(_)
trimLeft(str) ==
  IF str # <<>> /\ Head(str) = " " THEN trimLeft(Tail(str)) ELSE str

RECURSIVE trimRight(_)
trimRight(str) ==
  IF str # <<>> /\ str[Len(str)] = " " THEN trimRight(SubSeq(str, 1, Len(str) - 1))
  ELSE str

\* displayName.trim()
trimStr(str) == trimRight(trimLeft(str))

\* the aliases the viewer enters
NameInputs == {<<" ", "a", "b", " ">>, <<" ", "Z", "e", "d">>}

\* the shortest alias updateDisplayName takes
MinAlias == 3

\* the error messages the context shows
TimeoutMsg == "ensureProfile after 5000ms"
InsertMsg == "insert error"
PatchMsg == "patch error"
ReadBackMsg == "Unable to read profile after insert (check RLS SELECT on profiles)."

InitAuth ==
  /\ session = Null /\ user = Null /\ profile = NoProfile
  /\ authLoading = TRUE /\ profileLoading = FALSE /\ errMsg = ""
  /\ runIdRef = 0 /\ mountedRef = TRUE /\ boot = TRUE
  /\ store \in [Accounts -> {NoProfile}]
  /\ attempts = {} /\ updates = {} /\ updateCount = 0
  /\ savedAlias = NoAlias /\ calls = {}
  /\ MenuUnused
  /\ act = Act("init", Null)
  /\ CommentsUnused
  /\ DmUnused
  /\ ChatUnused

AuthFrame == UNCHANGED <<commentVars, dmVars, chatVars, menuVars>>

\* authLoading at the end of the synchronous phase of hydrateFromSession(s):
\* setAuthLoading(true), then setAuthLoading(false) before any await
loadingUntilProfile(s) == s # Null
loadingOnceIdentified(s) == FALSE

\* hydrateFromSession(s), up to the start of ensureProfile
Hydrate(s) ==
  LET runId == runIdRef + 1
  IN  /\ runIdRef' = runId
      /\ IF mountedRef
         THEN /\ authLoading' = loadingOnceIdentified(s)
              /\ errMsg' = ""
              /\ session' = s
              /\ user' = s
              /\ profile' = IF s = Null THEN NoProfile
                            ELSE IF profile # NoProfile THEN profile
                            ELSE placeholderOf(UserOf(s))
              /\ profileLoading' = (s # Null)
         ELSE UNCHANGED clientVars
      /\ attempts' = IF s = Null THEN attempts
                     ELSE attempts \cup {[runId |-> runId, user |-> s, pc |-> "select",
                                          existing |-> NoProfile, settled |-> FALSE]}
      /\ act' = Act("hydrate", runId)
      /\ savedAlias' = NoAlias
      /\ UNCHANGED <<mountedRef, store, updates, updateCount, calls>>
      /\ AuthFrame

\* the init effect: getSession() answers with a session
GetSession(s) ==
  /\ boot
  /\ runIdRef < MaxRuns
  /\ boot' = FALSE
  /\ Hydrate(s)

\* the init effect: getSession() answers with an error
GetSessionFailed ==
  /\ boot
  /\ boot' = FALSE
  /\ IF mountedRef
     THEN /\ errMsg' = "getSession error"
          /\ authLoading' = FALSE
     ELSE UNCHANGED <<errMsg, authLoading>>
  /\ act' = Act("getSessionFailed", Null)
  /\ UNCHANGED <<session, user, profile, profileLoading, runIdRef, mountedRef,
                 store, attempts, updates, updateCount, savedAlias, calls>>
  /\ AuthFrame

\* onAuthStateChange: sign-in, sign-out or token refresh
AuthEvent(s) ==
  /\ mountedRef
  /\ runIdRef < MaxRuns
  /\ UNCHANGED boot
  /\ Hydrate(s)

\* the cleanup of the init effect
Unmount ==
  /\ mountedRef
  /\ mountedRef' = FALSE
  /\ act' = Act("unmount", Null)
  /\ UNCHANGED <<clientVars, runIdRef, boot, store, attempts, updates, updateCount,
                 savedAlias, calls>>
  /\ AuthFrame

\* a backend trigger creates the row of a new account
TriggerCreate(u) ==
  /\ store[u] = NoProfile
  /\ store' = [store EXCEPT ![u] = [id |-> u, display_name |-> NoStr, avatar_url |-> NoStr]]
  /\ act' = Act("trigger", u)
  /\ UNCHANGED <<clientVars, runIdRef, mountedRef, boot, attempts, updates, updateCount,
                 savedAlias, calls>>
  /\ AuthFrame

\* what the then/catch/finally of withTimeout(...) commit for attempt a
fulfilsLate(a, p) ==
  IF commitIfLatest(a.runId)
  THEN /\ profile' = p
       /\ profileLoading' = FALSE
       /\ UNCHANGED <<session, user, authLoading, errMsg>>
  ELSE UNCHANGED clientVars
fulfils(a, p) ==
  IF ~a.settled /\ commitIfLatest(a.runId)
  THEN /\ profile' = p
       /\ profileLoading' = FALSE
       /\ UNCHANGED <<session, user, authLoading, errMsg>>
  ELSE UNCHANGED clientVars

rejects(a, msg) ==
  IF ~a.settled /\ commitIfLatest(a.runId)
  THEN /\ errMsg' = msg
       /\ profileLoading' = FALSE
       /\ UNCHANGED <<session, user, authLoading, profile>>
  ELSE UNCHANGED clientVars

\* attempt a goes on to the backend call pc
goesOn(a, pc, existing, ok) ==
  /\ attempts' = (attempts \ {a}) \cup {[a EXCEPT !.pc = pc, !.existing = existing]}
  /\ act' = StepAct("epStep", a.runId, a.pc, ok)
  /\ UNCHANGED clientVars

\* ensureProfile of attempt a returns p
returns(a, p, ok) ==
  /\ attempts' = attempts \ {a}
  /\ act' = StepAct(IF a.settled THEN "epLate" ELSE "epResolve", a.runId, a.pc, ok)
  /\ fulfils(a, p)

\* ensureProfile of attempt a throws
throws(a, msg, ok) ==
  /\ attempts' = attempts \ {a}
  /\ act' = StepAct(IF a.settled THEN "epLate" ELSE "epReject", a.runId, a.pc, ok)
  /\ rejects(a, msg)

\* if (insertError): re-select, the row may have been created meanwhile
onInsertErrorThrow(a, ok) == throws(a, InsertMsg, ok)
onInsertError(a, ok) == goesOn(a, "selectAfterRace", a.existing, ok)

EpFrame ==
  UNCHANGED <<runIdRef, mountedRef, boot, updates, updateCount, savedAlias, calls>>
  /\ AuthFrame

\* ensureProfile 1) try read
EpSelect(a, ok) ==
  /\ a \in attempts /\ a.pc = "select"
  /\ LET existing == selectProfile(a.user, ok)
         defaults == buildProfileDefaults(UserOf(a.user))
     IN  IF existing = NoProfile THEN goesOn(a, "insert", existing, ok)
         ELSE IF hasPatch(existing, defaults) THEN goesOn(a, "patch", existing, ok)
         ELSE returns(a, existing, ok)
  /\ UNCHANGED store
  /\ EpFrame

\* ensureProfile 2) create if missing: the insert; the table takes one row
\* for an account
EpInsert(a, ok) ==
  /\ a \in attempts /\ a.pc = "insert"
  /\ IF ok /\ store[a.user] = NoProfile
     THEN /\ store' = [store EXCEPT ![a.user] = insertedRow(UserOf(a.user))]
          /\ goesOn(a, "selectCreated", a.existing, TRUE)
     ELSE /\ UNCHANGED store
          /\ onInsertError(a, FALSE)
  /\ EpFrame

\* ensureProfile 2) the re-select after a rejected insert
EpSelectAfterRace(a, ok) ==
  /\ a \in attempts /\ a.pc = "selectAfterRace"
  /\ LET afterRace == selectProfile(a.user, ok)
     IN  IF afterRace = NoProfile THEN throws(a, InsertMsg, ok)
         ELSE returns(a, afterRace, ok)
  /\ UNCHANGED store
  /\ EpFrame

\* ensureProfile 2) the select of the created row
EpSelectCreated(a, ok) ==
  /\ a \in attempts /\ a.pc = "selectCreated"
  /\ LET created == selectProfile(a.user, ok)
     IN  IF created = NoProfile THEN throws(a, ReadBackMsg, ok)
         ELSE returns(a, created, ok)
  /\ UNCHANGED store
  /\ EpFrame

\* ensureProfile 3) patch missing only: the update
EpPatch(a, ok) ==
  /\ a \in attempts /\ a.pc = "patch"
  /\ IF ok
     THEN /\ store' = [store EXCEPT ![a.user] =
                         IF @ = NoProfile THEN @
                         ELSE patched(@, a.existing, buildProfileDefaults(UserOf(a.user)))]
          /\ goesOn(a, "selectUpdated", a.existing, ok)
     ELSE /\ UNCHANGED store
          /\ throws(a, PatchMsg, ok)
  /\ EpFrame

\* ensureProfile 3) the select of the patched row
EpSelectUpdated(a, ok) ==
  /\ a \in attempts /\ a.pc = "selectUpdated"
  /\ LET updated == selectProfile(a.user, ok)
     IN  returns(a, IF updated # NoProfile THEN updated ELSE a.existing, ok)
  /\ UNCHANGED store
  /\ EpFrame

\* withTimeout: reject(new Error(label + " after " + ms + "ms"))
onTimeoutIgnored(a) == UNCHANGED clientVars
onTimeout(a) == rejects(a, TimeoutMsg)

\* withTimeout: the timer of attempt a fires before ensureProfile settles
Timeout(a) ==
  /\ a \in attempts /\ ~a.settled
  /\ attempts' = (attempts \ {a}) \cup {[a EXCEPT !.settled = TRUE]}
  /\ onTimeout(a)
  /\ act' = StepAct("epTimeout", a.runId, a.pc, TRUE)
  /\ UNCHANGED store
  /\ EpFrame

\* updateDisplayName(displayName), up to the await of the update
UpdateDisplayName(displayName) ==
  /\ mountedRef
  /\ user # Null
  /\ Len(trimStr(displayName)) >= MinAlias
  /\ updateCount < MaxUpdates
  /\ updateCount' = updateCount + 1
  /\ updates' = updates \cup {[user |-> user, clean |-> trimStr(displayName)]}
  /\ act' = Act("updateDisplayName", user)
  /\ UNCHANGED <<clientVars, runIdRef, mountedRef, boot, store, attempts,
                 savedAlias, calls>>
  /\ AuthFrame

\* updateDisplayName, the update and what follows the await
UpdateAnswered(p, ok) ==
  /\ p \in updates
  /\ updates' = updates \ {p}
  /\ IF ok
     THEN /\ store' = [store EXCEPT ![p.user] =
                         IF @ = NoProfile THEN @ ELSE [@ EXCEPT !.display_name = p.clean]]
          /\ profile' = IF mountedRef /\ profile # NoProfile
                        THEN [profile EXCEPT !.display_name = p.clean]
                        ELSE profile
     ELSE UNCHANGED <<store, profile>>
  /\ savedAlias' = IF ok /\ store[p.user] # NoProfile
                   THEN [user |-> p.user, clean |-> p.clean]
                   ELSE savedAlias
  /\ act' = Act(IF ok THEN "updated" ELSE "updateFailed", p.user)
  /\ UNCHANGED <<session, user, authLoading, profileLoading, errMsg, runIdRef,
                 mountedRef, boot, attempts, updateCount, calls>>
  /\ AuthFrame

Sessions == {Null} \cup Accounts

\* the init effect, the identity events and the hydration they start
NextHydration ==
  \/ \E s \in Sessions : GetSession(s)
  \/ GetSessionFailed
  \/ \E s \in Sessions : AuthEvent(s)
  \/ Unmount
  \/ \E u \in Accounts : TriggerCreate(u)
  \/ \E a \in attempts, ok \in BOOLEAN : EpSelect(a, ok)
  \/ \E a \in attempts, ok \in BOOLEAN : EpInsert(a, ok)
  \/ \E a \in attempts, ok \in BOOLEAN : EpSelectAfterRace(a, ok)
  \/ \E a \in attempts, ok \in BOOLEAN : EpSelectCreated(a, ok)
  \/ \E a \in attempts, ok \in BOOLEAN : EpPatch(a, ok)
  \/ \E a \in attempts, ok \in BOOLEAN : EpSelectUpdated(a, ok)
  \/ \E a \in attempts : Timeout(a)

NextAuth ==
  \/ NextHydration
  \/ \E n \in NameInputs : UpdateDisplayName(n)
  \/ \E p \in updates, ok \in BOOLEAN : UpdateAnswered(p, ok)

SpecAuth == InitAuth /\ [][NextAuth]_vars

\* setTimeout fires: a timer that is armed does not stay armed for ever.
\* The backend is free never to answer.
SpecAuthTimers ==
  InitAuth /\ [][NextHydration]_vars /\ WF_vars(\E a \in attempts : Timeout(a))

CallsFrame ==
  UNCHANGED <<runIdRef, mountedRef, boot, store, attempts, updates, updateCount,
              savedAlias>>
  /\ AuthFrame

\* signOut(), up to the await of supabase.auth.signOut()
SignOut ==
  /\ mountedRef
  /\ Cardinality(calls) < MaxCalls
  /\ calls' = calls \cup {[op |-> "signOut", user |-> user]}
  /\ act' = Act("signOut", user)
  /\ UNCHANGED clientVars
  /\ CallsFrame

\* signOut(), after the await: throw the error, or the local cleanup
SignOutAnswered(c, ok) ==
  /\ c \in calls /\ c.op = "signOut"
  /\ calls' = calls \ {c}
  /\ IF ok /\ mountedRef
     THEN /\ session' = Null
          /\ user' = Null
          /\ profile' = NoProfile
          /\ errMsg' = ""
          /\ UNCHANGED <<authLoading, profileLoading>>
     ELSE UNCHANGED clientVars
  /\ act' = StepAct(IF ok THEN "signedOut" ELSE "signOutFailed", c.user, c.op, ok)
  /\ CallsFrame

\* refreshProfile(), up to the await of selectProfile(user.id)
RefreshProfile ==
  /\ mountedRef
  /\ IF user = Null
     THEN /\ profile' = NoProfile
          /\ act' = Act("refreshNoUser", Null)
          /\ UNCHANGED <<session, user, authLoading, profileLoading, errMsg, calls>>
     ELSE /\ Cardinality(calls) < MaxCalls
          /\ calls' = calls \cup {[op |-> "refresh", user |-> user]}
          /\ act' = Act("refresh", user)
          /\ UNCHANGED clientVars
  /\ CallsFrame

\* refreshProfile(), after the await: setProfile(p)
RefreshAnswered(c, ok) ==
  /\ c \in calls /\ c.op = "refresh"
  /\ calls' = calls \ {c}
  /\ profile' = IF mountedRef THEN selectProfile(c.user, ok) ELSE profile
  /\ act' = StepAct("refreshed", c.user, c.op, ok)
  /\ UNCHANGED <<session, user, authLoading, profileLoading, errMsg>>
  /\ CallsFrame

NextAuthCalls ==
  \/ NextHydration
  \/ SignOut
  \/ \E c \in calls, ok \in BOOLEAN : SignOutAnswered(c, ok)
  \/ RefreshProfile
  \/ \E c \in calls, ok \in BOOLEAN : RefreshAnswered(c, ok)

\* the provider with the signOut and refreshProfile of its context
SpecAuthCalls == InitAuth /\ [][NextAuthCalls]_vars

\* ========================================================================
\* AccountMenu.tsx
\* ========================================================================
\* the account of the visitor
Visitor == 1

\* the errors the provider's functions throw
AliasTooShort == "Alias too short"

\* what the click handler of a provider call does with a rejection: the
\* handlers of sign-in and sign-out have try/finally, onSaveAlias has
\* try/catch/finally
catches(op) == op = "alias"

\* the menu of a page whose auth context is ready, signed in or not
InitMenu ==
  /\ MenuUnused
  /\ user \in {Null, Visitor}
  /\ session = user
  /\ store = [u \in Accounts |-> IF u = Visitor THEN placeholderOf(UserOf(u)) ELSE NoProfile]
  /\ profile = IF user = Null THEN NoProfile ELSE store[user]
  /\ authLoading = FALSE /\ profileLoading = FALSE /\ errMsg = ""
  /\ runIdRef = 0 /\ mountedRef = TRUE /\ boot = FALSE
  /\ attempts = {} /\ updates = {} /\ updateCount = 0
  /\ savedAlias = NoAlias /\ calls = {}
  /\ act = Act("init", Null)
  /\ CommentsUnused
  /\ DmUnused
  /\ ChatUnused

MenuFrame ==
  UNCHANGED <<commentVars, dmVars, chatVars, authLoading, profileLoading, runIdRef,
              mountedRef, boot, attempts, updates, updateCount, savedAlias, calls>>

\* the avatar button: setOpen((v) => !v)
ToggleMenu ==
  /\ menuOpen' = ~menuOpen
  /\ act' = Act("toggleMenu", Null)
  /\ UNCHANGED <<editing, menuBusy, menuError, menuCalls, uncaught>>
  /\ UNCHANGED <<session, user, profile, errMsg, store>>
  /\ MenuFrame

\* mousedown outside the menu, or Escape; closeMenu does the same
CloseMenu ==
  /\ menuOpen
  /\ menuOpen' = FALSE
  /\ editing' = FALSE
  /\ menuError' = ""
  /\ act' = Act("closeMenu", Null)
  /\ UNCHANGED <<menuBusy, menuCalls, uncaught>>
  /\ UNCHANGED <<session, user, profile, errMsg, store>>
  /\ MenuFrame

\* the Google button: onClick, up to the await of signInWithGoogle()
SignInClick ==
  /\ menuOpen /\ user = Null /\ ~menuBusy
  /\ menuBusy' = TRUE
  /\ menuCalls' = menuCalls \cup {[op |-> "signIn", clean |-> NoStr]}
  /\ act' = Act("signIn", Null)
  /\ UNCHANGED <<menuOpen, editing, menuError, uncaught>>
  /\ UNCHANGED <<session, user, profile, errMsg, store>>
  /\ MenuFrame

\* Cambiar alias: setEditing(true)
StartEdit ==
  /\ menuOpen /\ user # Null /\ ~editing
  /\ editing' = TRUE
  /\ act' = Act("startEdit", Null)
  /\ UNCHANGED <<menuOpen, menuBusy, menuError, menuCalls, uncaught>>
  /\ UNCHANGED <<session, user, profile, errMsg, store>>
  /\ MenuFrame

\* Cancelar: setEditing(false); setError(null)
CancelEdit ==
  /\ menuOpen /\ user # Null /\ editing /\ ~menuBusy
  /\ editing' = FALSE
  /\ menuError' = ""
  /\ act' = Act("cancelEdit", Null)
  /\ UNCHANGED <<menuOpen, menuBusy, menuCalls, uncaught>>
  /\ UNCHANGED <<session, user, profile, errMsg, store>>
  /\ MenuFrame

\* Guardar with the input holding displayName: onSaveAlias, up to the await
\* of the update; updateDisplayName throws before it for a short alias
SaveAlias(displayName) ==
  /\ menuOpen /\ user # Null /\ editing /\ ~menuBusy
  /\ IF Len(trimStr(displayName)) < MinAlias
     THEN /\ menuError' = AliasTooShort
          /\ UNCHANGED <<menuBusy, menuCalls>>
          /\ act' = Act("aliasRejected", Null)
     ELSE /\ menuError' = ""
          /\ menuBusy' = TRUE
          /\ menuCalls' = menuCalls \cup {[op |-> "alias", clean |-> trimStr(displayName)]}
          /\ act' = Act("saveAlias", Null)
  /\ UNCHANGED <<menuOpen, editing, uncaught>>
  /\ UNCHANGED <<session, user, profile, errMsg, store>>
  /\ MenuFrame

\* Cerrar sesion: onClick, up to the await of signOut()
SignOutClick ==
  /\ menuOpen /\ user # Null /\ ~menuBusy
  /\ menuBusy' = TRUE
  /\ menuCalls' = menuCalls \cup {[op |-> "signOut", clean |-> NoStr]}
  /\ act' = Act("signOut", Null)
  /\ UNCHANGED <<menuOpen, editing, menuError, uncaught>>
  /\ UNCHANGED <<session, user, profile, errMsg, store>>
  /\ MenuFrame

\* a call of the menu fails: the provider's function throws the error, the
\* handler's finally resets busy
CallFailed(c) ==
  /\ c \in menuCalls
  /\ menuCalls' = menuCalls \ {c}
  /\ menuBusy' = FALSE
  /\ IF catches(c.op)
     THEN /\ menuError' = BackendError
          /\ UNCHANGED uncaught
     ELSE /\ uncaught' = uncaught \cup {c.op}
          /\ UNCHANGED menuError
  /\ act' = StepAct("callFailed", Null, c.op, FALSE)
  /\ UNCHANGED <<menuOpen, editing>>
  /\ UNCHANGED <<session, user, profile, errMsg, store>>
  /\ MenuFrame

\* signInWithOAuth succeeds: the handler ends, the browser leaves for the
\* identity provider and comes back signed in
SignedIn(c) ==
  /\ c \in menuCalls /\ c.op = "signIn"
  /\ menuCalls' = menuCalls \ {c}
  /\ menuBusy' = FALSE
  /\ session' = Visitor
  /\ user' = Visitor
  /\ profile' = store[Visitor]
  /\ act' = StepAct("signedIn", Null, c.op, TRUE)
  /\ UNCHANGED <<menuOpen, editing, menuError, uncaught, errMsg, store>>
  /\ MenuFrame

\* signOut() succeeds: the provider clears its state, the handler closes the
\* menu
SignedOut(c) ==
  /\ c \in menuCalls /\ c.op = "signOut"
  /\ menuCalls' = menuCalls \ {c}
  /\ session' = Null
  /\ user' = Null
  /\ profile' = NoProfile
  /\ errMsg' = ""
  /\ menuOpen' = FALSE
  /\ editing' = FALSE
  /\ menuError' = ""
  /\ menuBusy' = FALSE
  /\ act' = StepAct("signedOut", Null, c.op, TRUE)
  /\ UNCHANGED <<uncaught, store>>
  /\ MenuFrame

\* updateDisplayName succeeds: the row and the profile take the alias, the
\* handler closes the editor
AliasSaved(c) ==
  /\ c \in menuCalls /\ c.op = "alias"
  /\ menuCalls' = menuCalls \ {c}
  /\ store' = [store EXCEPT ![Visitor] = [@ EXCEPT !.display_name = c.clean]]
  /\ profile' = IF profile # NoProfile THEN [profile EXCEPT !.display_name = c.clean]
                ELSE profile
  /\ editing' = FALSE
  /\ menuBusy' = FALSE
  /\ act' = StepAct("aliasSaved", Null, c.op, TRUE)
  /\ UNCHANGED <<menuOpen, menuError, uncaught, session, user, errMsg>>
  /\ MenuFrame

NextMenu ==
  \/ ToggleMenu
  \/ CloseMenu
  \/ SignInClick
  \/ StartEdit
  \/ CancelEdit
  \/ \E n \in NameInputs : SaveAlias(n)
  \/ SignOutClick
  \/ \E c \in menuCalls : CallFailed(c)
  \/ \E c \in menuCalls : SignedIn(c)
  \/ \E c \in menuCalls : SignedOut(c)
  \/ \E c \in menuCalls : AliasSaved(c)

\* the account menu of a page whose auth context is ready
SpecMenu == InitMenu /\ [][NextMenu]_vars

\* C19: a backend failure of a call that a handler of the menu made
\* (sign-in, sign-out, display-name update) is caught by that handler: an
\* error string is set, the busy flag is reset and no rejection is left
\* uncaught.
C19_FailuresBecomeErrorStrings ==
  [][act'.name = "callFailed" =>
       /\ menuError' # ""
       /\ menuBusy' = FALSE
       /\ uncaught' = uncaught]_vars

\* the steps of ensureProfile, as the last handler recorded in act
EnsureSteps == {"epStep", "epResolve", "epReject", "epLate"}

\* the ways an attempt completes: success, error, timeout
Completions == {"epResolve", "epReject", "epTimeout"}

\* C1: when a newer hydrate attempt has started before an older attempt's
\* ensureProfile completes, no step of the older attempt (its completion by
\* success, error or timeout included) changes the profile, the error message
\* or the profile-loading flag of the context.
C1_StaleAttemptInvisible ==
  [][\A a \in attempts :
       (a.runId # runIdRef /\ a \notin attempts'
          /\ act'.name \in (EnsureSteps \cup Completions) /\ act'.arg = a.runId)
       => UNCHANGED <<profile, errMsg, profileLoading>>]_vars

\* C1 witness: an older attempt has just returned its profile while the
\* provider is mounted and the newest attempt is still loading behind its
\* placeholder.
C1_Witness ==
  /\ act.name = "epResolve"
  /\ act.arg < runIdRef
  /\ mountedRef
  /\ profileLoading
  /\ profile # NoProfile
  /\ \E a \in attempts : a.runId = runIdRef /\ ~a.settled

\* C10: a step of ensureProfile (the insert of a missing row, the backfill of
\* missing fields) never changes a display name that the stored row already
\* has, so a user-chosen alias is never overwritten.
C10_AliasNeverOverwritten ==
  [][\A u \in Accounts :
       (store[u].display_name # NoStr /\ act'.name \in EnsureSteps)
       => store'[u].display_name = store[u].display_name]_vars

\* C16: when ensureProfile of the latest hydration attempt fails, or the
\* 5-second timer fires first, the profile in the context is kept, a
\* non-empty error string is set and session, user and the auth-loading flag
\* stay as committed; whatever the timed-out run does later changes nothing
\* in the context.
C16_FailureKeepsPlaceholder ==
  [][/\ (act'.name \in {"epReject", "epTimeout"} /\ act'.arg = runIdRef /\ mountedRef)
        => /\ profile' = profile
           /\ errMsg' # ""
           /\ profileLoading' = FALSE
           /\ UNCHANGED <<session, user, authLoading>>
           /\ authLoading = FALSE
     /\ \A a \in attempts :
          (a.settled /\ a \notin attempts' /\ act'.name \in EnsureSteps
             /\ act'.arg = a.runId)
          => UNCHANGED clientVars]_vars

\* C16 witness: the latest attempt timed out behind its placeholder, and its
\* ensureProfile has now returned the stored row; the context still shows
\* the placeholder and the timeout error.
C16_Witness ==
  /\ act.name = "epLate"
  /\ act.arg = runIdRef
  /\ mountedRef
  /\ user # Null
  /\ store[user] # NoProfile
  /\ store[user] # profile
  /\ profile = placeholderOf(UserOf(user))
  /\ errMsg = TimeoutMsg
  /\ ~profileLoading
  /\ ~authLoading

\* C17: when a hydration attempt starts with an identity present, the
\* profile of the context at once is the placeholder derived from that
\* identity: its id is that user's id, its name and avatar come from the
\* identity provider's metadata.
C17_PlaceholderOnHydrate ==
  [][(act'.name = "hydrate" /\ mountedRef /\ user' # Null)
       => profile' = placeholderOf(UserOf(user'))]_vars

\* the step of ensureProfile that attempt a takes
stepOf(a) == a \notin attempts' /\ act'.name \in EnsureSteps /\ act'.arg = a.runId

\* C18: the table holds at most one profile for an account, and a run of
\* ensureProfile whose insert is rejected because the account's profile is
\* already stored (by another run or by a backend trigger) leaves the stored
\* profile as it is, goes on to re-read it instead of failing, and returns
\* the stored profile when the re-read is answered.
C18_CreationRaceSafe ==
  /\ [][\A a \in attempts :
          /\ (stepOf(a) /\ a.pc = "insert" /\ store[a.user] # NoProfile)
               => /\ store' = store
                  /\ [a EXCEPT !.pc = "selectAfterRace"] \in attempts'
                  /\ UNCHANGED clientVars
          /\ (stepOf(a) /\ a.pc = "selectAfterRace" /\ store[a.user] # NoProfile
                 /\ act'.ok)
               => /\ act'.name \in {"epResolve", "epLate"}
                  /\ errMsg' = errMsg
                  /\ (~a.settled /\ mountedRef /\ a.runId = runIdRef)
                       => profile' = store[a.user]]_vars
  /\ [](\A u \in Accounts : store[u] # NoProfile => store[u].id = u)

\* C18 witness: a run that had found no profile had its insert rejected,
\* re-read and has returned the profile that was stored meanwhile.
C18_Witness ==
  /\ act.name = "epResolve"
  /\ act.pc = "selectAfterRace"
  /\ act.arg = runIdRef
  /\ mountedRef
  /\ user # Null
  /\ profile = store[user]
  /\ profile # NoProfile
  /\ ~profileLoading

\* C23: a hydration of the mounted provider commits session and user and
\* clears loading in the step that starts it, with the profile read of that
\* attempt not yet answered; loading is never true while an attempt is in
\* flight; and once getSession has answered or an identity event has been
\* handled, loading is false whatever events overlap.
C23_AuthReadyBeforeProfile ==
  /\ [][(act'.name = "hydrate" /\ mountedRef) =>
          /\ authLoading' = FALSE
          /\ session' = user'
          /\ user' = Null => attempts' = attempts
          /\ user' # Null =>
               \E a \in attempts' \ attempts :
                 a.runId = runIdRef' /\ a.user = user' /\ a.pc = "select"]_vars
  /\ [](mountedRef /\ attempts # {} => ~authLoading)
  /\ [](mountedRef /\ (~boot \/ runIdRef > 0) => ~authLoading)

\* C23 witness: a second identity event arrived while the profile read of
\* the first hydration was still in flight; loading is false with both
\* reads in flight.
C23_Witness ==
  /\ act.name = "hydrate"
  /\ mountedRef
  /\ runIdRef = 2
  /\ Cardinality(attempts) = 2
  /\ \A a \in attempts : a.pc = "select" /\ ~a.settled
  /\ user # Null
  /\ ~authLoading

\* C25: whenever the provider has a user and a profile, the profile is the
\* user's.
C25_ProfileOfUser ==
  (mountedRef /\ user # Null /\ profile # NoProfile) => profile.id = user

\* C30: while the provider is mounted, a profile hydration that is loading
\* stops loading, whether or not the backend answers; and when the loading
\* of a signed-in user ends, either ensureProfile has resolved and its
\* record, the user's, is the profile, or the profile is the one held
\* before and the error is set.
C30_HydrationFinishes ==
  /\ (mountedRef /\ profileLoading) ~> (~profileLoading \/ ~mountedRef)
  /\ [][(profileLoading /\ ~profileLoading' /\ user' # Null) =>
          \/ /\ act'.name = "epResolve"
             /\ act'.arg = runIdRef
             /\ profile'.id = user'
          \/ /\ act'.name \in {"epReject", "epTimeout"}
             /\ act'.arg = runIdRef
             /\ profile' = profile
             /\ errMsg' # ""]_vars

\* C30 witness: the timer ended the loading of the latest attempt, whose
\* first read has not been answered; the placeholder is kept and the error
\* is the timeout's.
C30_Witness ==
  /\ act.name = "epTimeout"
  /\ act.arg = runIdRef
  /\ act.pc = "select"
  /\ mountedRef
  /\ ~profileLoading
  /\ errMsg = TimeoutMsg
  /\ user # Null
  /\ profile = placeholderOf(UserOf(user))
  /\ \E a \in attempts : a.runId = runIdRef /\ a.settled /\ a.pc = "select"

\* C27: from the answer to an updateDisplayName that stored the alias until
\* the next hydration begins, the profile of that user, while there is one,
\* carries the saved alias.
C27_AliasStays ==
  (/\ savedAlias # NoAlias
   /\ mountedRef
   /\ user = savedAlias.user
   /\ profile # NoProfile)
    => profile.display_name = savedAlias.clean

\* C28: whenever the mounted provider has no user, it has no profile.
C28_NoProfileWithoutUser ==
  (mountedRef /\ user = Null) => profile = NoProfile

====
